---------------------------- MODULE Spec2Model ----------------------------
(***************************************************************************)
(* The media library (arora200/medialib): the relational store (Media,     *)
(* Playlist, PlaylistMedia rows), the file store, and the request handlers *)
(* of the REST surface (api.py) and of the browser surface (app.py).       *)
(*                                                                         *)
(* Every handler is a pure operator from (database, request) to            *)
(* (response, database); every action of the state machine applies one     *)
(* handler to the current database, so a state predicate quantified over   *)
(* a handler's inputs speaks of what that handler does in every reachable  *)
(* state.                                                                  *)
(*                                                                         *)
(* Library behaviour the handlers rest on (not under src/):                *)
(*  - Flask-SQLAlchemy removes the session at the end of every request, so *)
(*    whatever a handler did not commit is rolled back;                    *)
(*  - Session.commit() commits the outermost transaction, releasing an     *)
(*    open SAVEPOINT (SQLAlchemy 2.x, which Flask-SQLAlchemy 3.1 requires);*)
(*  - deleting a Media object nulls playlist_media.media_id of its         *)
(*    association rows (the backref has no delete cascade), which the      *)
(*    NOT NULL column refuses: the commit raises IntegrityError;           *)
(*  - SQLite gives a new row the id max(id)+1 of its table;                *)
(*  - flask-restx checks the payload of a method decorated with            *)
(*    api.expect(model, validate=True) before the method and its own       *)
(*    decorators run, and answers 400 when a required field is absent.     *)
(***************************************************************************)
EXTENDS Integers, Sequences, FiniteSets, Bags, TLC

\* ------------------------------------------------------------ bounds

\* the whole machine (Spec)
MaxUsers == 2
MaxMedia == 2
MaxPlaylists == 1
MaxOrder == 2
MaxLen == 2
\* the playlist engine alone (SpecEngine)
MaxEngineMedia == 3
MaxEngineOrder == 3
MaxEngineLen == 3
\* interleaved AddMedia requests (SpecRace)
MaxRequests == 2
MaxRaceMedia == 2
MaxRaceOrder == 2
\* several playlists side by side (SpecCascade)
MaxCascadePlaylists == 2
MaxCascadeMedia == 2
MaxCascadeOrder == 2
MaxCascadeLen == 2
\* a Reorder in steps beside readers (SpecReorder)
MaxReorderMedia == 2
MaxReorderOrder == 2
MaxReorderLen == 2
\* uploads whose commit may fail (SpecStorage)
MaxStorageMedia == 2
MaxStorageFiles == 3

\* ------------------------------------------------------------ identities

Users == 1..MaxUsers
\* current_user of a request without a logged-in session (is_authenticated false)
Anonymous == 0
Callers == Users \cup {Anonymous}

MediaIds == 1..MaxMedia
PlaylistIds == 1..MaxPlaylists
\* request.form.get('media_id', type=int) of a request without the field
MissingId == 0

\* requests: the AddMedia requests in progress, one per worker slot, each at
\* the statement it has reached (SpecRace; the other specifications handle
\* every request from start to end in one step and keep all slots idle)
VARIABLES media, files, playlists, assoc, requests

vars == <<media, files, playlists, assoc, requests>>

\* The database and the file store as one value, as the handlers see them.
DB == [media |-> media, files |-> files, playlists |-> playlists, assoc |-> assoc]

\* ------------------------------------------------------------ helpers

Max(S) == CHOOSE x \in S : \A y \in S : y <= x

Min(S) == CHOOSE x \in S : \A y \in S : x <= y

\* SQLite rowid of a new row: max(id) + 1, 1 in an empty table
NewId(ids) == IF ids = {} THEN 1 ELSE Max(ids) + 1

Range(s) == {s[i] : i \in DOMAIN s}

\* f without the key k
Drop(f, k) == [x \in (DOMAIN f) \ {k} |-> f[x]]

\* f with key k bound to v (a new key or an old one)
Put(f, k, v) == [x \in (DOMAIN f) \cup {k} |-> IF x = k THEN v ELSE f[x]]

\* the association rows (a bag: the table has no enforced uniqueness) as a set
Rows(d) == BagToSet(d.assoc)

PlaylistRows(d, playlist_id) == {r \in Rows(d) : r.playlist_id = playlist_id}

\* the rows matching filter_by(playlist_id=..., media_id=...)
PairRows(d, playlist_id, media_id) ==
  {r \in PlaylistRows(d, playlist_id) : r.media_id = media_id}

\* how many rows the table holds for the pair
PairCount(d, playlist_id, media_id) ==
  LET rs == PairRows(d, playlist_id, media_id)
      Sum[S \in SUBSET rs] ==
        IF S = {} THEN 0
        ELSE LET r == CHOOSE x \in S : TRUE
             IN CopiesIn(r, d.assoc) + Sum[S \ {r}]
  IN Sum[rs]

PlaylistMediaRow(playlist_id, media_id, order_index) ==
  [playlist_id |-> playlist_id, media_id |-> media_id, order_index |-> order_index]

\* ------------------------------------------------------------ responses

\* code: the HTTP status; msg: the message of the body or the flashed message;
\* flash: the category it was flashed with ("" when none was); media and
\* playlists: the ids of the rows whose data the response carries; list: the
\* media ids of a playlist listing, in the order returned
Resp(code, msg) ==
  [code |-> code, msg |-> msg, flash |-> "", media |-> {}, playlists |-> {},
   list |-> <<>>]

\* a handler's result: the response and the database it leaves behind
Result(resp, d) == [resp |-> resp, db |-> d]

\* api.abort(code, msg): nothing was committed
Abort(d, code, msg) == Result(Resp(code, msg), d)

\* flash(msg, category) and redirect (browser surface)
Redirect(d, category, msg) ==
  Result([Resp(302, msg) EXCEPT !.flash = category], d)

\* ------------------------------------------------------------ utils.py

ALLOWED_EXTENSIONS ==
  {"jpg", "jpeg", "png", "gif", "mp3", "wav", "mp4", "mov", "pdf", "docx", "txt"}

\* str.lower() on the name tokens the model uses
Lower(tok) ==
  CASE tok = "MP3" -> "mp3"
    [] tok = "MP4" -> "mp4"
    [] tok = "PDF" -> "pdf"
    [] tok = "JPG" -> "jpg"
    [] tok = "EXE" -> "exe"
    [] OTHER -> tok

\* A file name is a sequence of tokens, "." or a dot-free piece of the name.
HasDot(filename) == \E i \in DOMAIN filename : filename[i] = "."

\* os.path.splitext(filename)[1] without its dot: the piece after the last
\* dot, "" when there is no dot or when only leading dots precede it
splitext_ext(filename) ==
  LET dots == {i \in DOMAIN filename : filename[i] = "."}
  IN IF dots = {} THEN ""
     ELSE LET k == Max(dots)
          IN IF \A i \in 1..k : filename[i] = "." THEN ""
             ELSE IF k = Len(filename) THEN ""
             ELSE filename[k + 1]

\* Faulty variant of allowed_file: any name with a dot passes
allowed_file_any_extension(filename) == HasDot(filename)

allowed_file(filename) ==
  HasDot(filename) /\ Lower(splitext_ext(filename)) \in ALLOWED_EXTENSIONS

get_file_type(filename) ==
  LET ext == Lower(splitext_ext(filename))
  IN IF ext \in {"jpg", "jpeg", "png", "gif"} THEN "image"
     ELSE IF ext \in {"mp3", "wav"} THEN "audio"
     ELSE IF ext \in {"mp4", "mov"} THEN "video"
     ELSE IF ext \in {"pdf", "docx", "txt"} THEN "ebook"
     ELSE "other"

\* a piece of a file name made of characters outside ASCII only
NonAscii == "<nonascii>"

\* werkzeug's secure_filename on these names: the characters outside ASCII
\* are dropped, then leading and trailing dots go
secure_filename(filename) ==
  LET IsAscii(tok) == tok # NonAscii
      ascii == SelectSeq(filename, IsAscii)
      keep == {i \in DOMAIN ascii : ascii[i] # "."}
  IN IF keep = {} THEN <<>>
     ELSE SubSeq(ascii, Min(keep), Max(keep))

\* ------------------------------------------------------------ text

\* Text columns are sequences of characters; NULL is a value of its own.
NullText == <<"<null>">>
\* NULL in a plain string column
None == "<null>"

\* Python truthiness of an optional text / string argument
TruthyText(t) == t # NullText /\ t # <<>>

Truthy(s) == s # None /\ s # ""

\* whether t occurs in s as a contiguous piece
Contains(s, t) ==
  \E i \in 0..(Len(s) - Len(t)) : SubSeq(s, i + 1, i + Len(t)) = t

\* str.strip(): leading and trailing blanks go
Strip(s) ==
  LET keep == {i \in DOMAIN s : s[i] # " "}
  IN IF keep = {} THEN <<>> ELSE SubSeq(s, Min(keep), Max(keep))

\* the pieces of s.split(','), as a set
SplitComma(s) ==
  LET cuts == {0, Len(s) + 1} \cup {i \in DOMAIN s : s[i] = ","}
  IN {SubSeq(s, a + 1, b - 1) :
        <<a, b>> \in {p \in cuts \X cuts :
                        p[1] < p[2] /\ ~\E c \in cuts : p[1] < c /\ c < p[2]}}

\* tag_list = [t.strip() for t in tags.split(',') if t.strip()]
TagList(tags) == {Strip(t) : t \in SplitComma(tags)} \ {<<>>}

\* Media.tags.like('%tag%'): NULL never matches
TagsLike(m, tag) == m.tags # NullText /\ Contains(m.tags, tag)

\* or_conditions over tag_list
TagsFilter(m, tags) == \E tag \in TagList(tags) : TagsLike(m, tag)

\* Media.title.like(f"%{title}% "): the pattern ends with a blank
TitleLikeApi(m, title) ==
  /\ Len(m.title) > 0
  /\ m.title[Len(m.title)] = " "
  /\ Contains(SubSeq(m.title, 1, Len(m.title) - 1), title)

\* Media.title.like(f'%{q}%')
TitleLike(m, q) == Contains(m.title, q)

\* ------------------------------------------------------------ decorators

\* current_user.is_authenticated (api_login_required, flask_login.login_required)
Authenticated(u) == u # Anonymous

api_login_required(d) == Abort(d, 401, "Authentication required")

\* flask_login aborts 401 (no login_view); app.errorhandler(401) redirects
login_required(d) == Redirect(d, "danger", "Unauthorized access. Please log in.")

\* Media.query.filter_by(id=media_id, user_id=current_user.id).first()
OwnMedia(d, u, media_id) ==
  media_id \in DOMAIN d.media /\ d.media[media_id].user_id = u

\* Faulty variant of OwnPlaylist: the user_id filter is left out of the query
OwnPlaylist_any_owner(d, u, playlist_id) == playlist_id \in DOMAIN d.playlists

\* Playlist.query.filter_by(id=playlist_id, user_id=current_user.id).first()
OwnPlaylist(d, u, playlist_id) ==
  playlist_id \in DOMAIN d.playlists /\ d.playlists[playlist_id].user_id = u

\* the ids in id order, as a query without ORDER BY returns them
RECURSIVE InIdOrder(_)
InIdOrder(ids) ==
  IF ids = {} THEN <<>> ELSE <<Min(ids)>> \o InIdOrder(ids \ {Min(ids)})

\* query.offset(offset).limit(limit).all()
Page(ids, offset, limit) ==
  LET s == InIdOrder(ids)
  IN {s[i] : i \in {j \in DOMAIN s : j > offset /\ j <= offset + limit}}

\* uuid.uuid4().hex: a name no row and no stored file carries
NewUuid(d) ==
  LET used == {d.media[i].filename.uuid : i \in DOMAIN d.media}
                \cup {f.uuid : f \in d.files}
  IN Min((1..(Cardinality(used) + 1)) \ used)

\* if os.path.exists(file_path): os.remove(file_path)
remove_if_exists(d, file_path) == [d EXCEPT !.files = @ \ {file_path}]

\* Faulty variant of MediaDeleteCommits: the store takes the delete whatever
\* rows name the media item
MediaDeleteCommits_unconstrained(d, media_id) == TRUE

\* whether db.session.delete(media_item) can commit: the rows of
\* playlist_associations would get media_id NULL, which is NOT NULL
MediaDeleteCommits(d, media_id) ==
  ~\E r \in Rows(d) : r.media_id = media_id

\* ------------------------------------------------------------ api.py: media

\* dict.get(key, default) on a JSON payload / parsed arguments
Get(data, key, default) == IF key \in DOMAIN data THEN data[key] ELSE default

\* api.expect(model, validate=True): the payload is checked against the
\* model before the method runs; a required field that is absent is a 400
validate_payload(data, required) == required \subseteq DOMAIN data

ValidationFailed(d) == Abort(d, 400, "Input payload validation failed")

\* request.files without a 'file' part
NoFile == <<"<nofile>">>

\* the equality filters shared by MediaList.get and index
EqFilters(m, file_type, category, subcategory) ==
  /\ Truthy(file_type) => m.file_type = file_type
  /\ Truthy(category) => m.category = category
  /\ Truthy(subcategory) => m.subcategory = subcategory

MediaList_get(d, u, args) ==
  IF ~Authenticated(u) THEN api_login_required(d)
  ELSE
    LET hit == {i \in DOMAIN d.media :
                  /\ d.media[i].user_id = u
                  /\ TruthyText(args.title) => TitleLikeApi(d.media[i], args.title)
                  /\ (TruthyText(args.tags) /\ TagList(args.tags) # {})
                       => TagsFilter(d.media[i], args.tags)
                  /\ EqFilters(d.media[i], args.file_type, args.category,
                               args.subcategory)}
    IN Result([Resp(200, "OK") EXCEPT !.media = Page(hit, args.offset, args.limit)], d)

\* commit_fails: db.session.commit() raises (the store refuses the insert);
\* nothing catches it, the answer is 500 and the saved file stays
MediaList_post(d, u, args, file, commit_fails) ==
  IF ~Authenticated(u) THEN api_login_required(d)
  ELSE IF args.title = NullText THEN Abort(d, 400, "Title of the media item")
  ELSE IF file = NoFile THEN Abort(d, 400, "No file part in the request")
  ELSE IF file = <<>> THEN Abort(d, 400, "No selected file")
  ELSE IF ~allowed_file(file) THEN Abort(d, 400, "File type not allowed")
  ELSE
    LET original_filename == secure_filename(file)
        file_extension == Lower(splitext_ext(original_filename))
        new_filename == [uuid |-> NewUuid(d), ext |-> file_extension]
        new_id == NewId(DOMAIN d.media)
        new_media ==
          [title |-> args.title,
           description |-> args.description,
           tags |-> args.tags,
           filename |-> new_filename,
           file_type |-> IF Truthy(args.file_type) THEN args.file_type
                         ELSE get_file_type(original_filename),
           category |-> IF Truthy(args.category) THEN args.category
                        ELSE get_file_type(original_filename),
           subcategory |-> args.subcategory,
           user_id |-> u]
    IN IF commit_fails
         THEN Abort([d EXCEPT !.files = @ \cup {new_filename}], 500, "Internal Server Error")
       ELSE Result([Resp(201, "Created") EXCEPT !.media = {new_id}],
                   [d EXCEPT !.files = @ \cup {new_filename},
                             !.media = Put(@, new_id, new_media)])

MediaItem_get(d, u, media_id) ==
  IF ~Authenticated(u) THEN api_login_required(d)
  ELSE IF OwnMedia(d, u, media_id)
    THEN Result([Resp(200, "OK") EXCEPT !.media = {media_id}], d)
  ELSE Abort(d, 404, "Media item not found or not authorized")

MediaItem_put(d, u, media_id, data) ==
  IF ~validate_payload(data, {"title"}) THEN ValidationFailed(d)
  ELSE IF ~Authenticated(u) THEN api_login_required(d)
  ELSE IF ~OwnMedia(d, u, media_id)
    THEN Abort(d, 404, "Media item not found or not authorized")
  ELSE
    LET old == d.media[media_id]
        new == [old EXCEPT !.title = Get(data, "title", old.title),
                           !.description = Get(data, "description", old.description),
                           !.tags = Get(data, "tags", old.tags),
                           !.category = Get(data, "category", old.category),
                           !.subcategory = Get(data, "subcategory", old.subcategory)]
    IN Result([Resp(200, "OK") EXCEPT !.media = {media_id}],
              [d EXCEPT !.media[media_id] = new])

\* Faulty variant of MediaItem_delete: a failed os.remove is logged and the
\* row is deleted all the same
MediaItem_delete_despite_failure(d, u, media_id, os_fails) ==
  IF ~Authenticated(u) THEN api_login_required(d)
  ELSE IF ~OwnMedia(d, u, media_id)
    THEN Abort(d, 404, "Media item not found or not authorized")
  ELSE IF ~MediaDeleteCommits(d, media_id)
    THEN Abort(d, 500, "An unexpected error occurred")
  ELSE Result(Resp(IF os_fails THEN 500 ELSE 204, ""),
              [d EXCEPT !.media = Drop(@, media_id)])

\* os_fails: whether os.remove raises
MediaItem_delete(d, u, media_id, os_fails) ==
  IF ~Authenticated(u) THEN api_login_required(d)
  ELSE IF ~OwnMedia(d, u, media_id)
    THEN Abort(d, 404, "Media item not found or not authorized")
  ELSE
    LET file_path == d.media[media_id].filename
        removed == [d EXCEPT !.files = @ \ {file_path}]
    IN IF file_path \in d.files /\ os_fails
         THEN Abort(d, 500, "Failed to delete media file from filesystem")
       ELSE IF ~MediaDeleteCommits(d, media_id)
         \* IntegrityError out of commit: generic_error answers, the file is gone
         THEN Abort(removed, 500, "An unexpected error occurred")
       ELSE Result(Resp(204, ""), [removed EXCEPT !.media = Drop(@, media_id)])

MediaDownload_get(d, u, media_id) ==
  IF ~Authenticated(u) THEN api_login_required(d)
  ELSE IF ~OwnMedia(d, u, media_id)
    THEN Abort(d, 404, "Media item not found or not authorized")
  \* send_from_directory: 404 when the file is missing
  ELSE IF d.media[media_id].filename \notin d.files THEN Abort(d, 404, "Not Found")
  ELSE Result([Resp(200, "attachment") EXCEPT !.media = {media_id}], d)

\* ------------------------------------------------------------ app.py: media

per_page == 8

search_limit == 10

\* index: no login_required, no owner filter
index(d, u, args) ==
  LET hit == {i \in DOMAIN d.media :
                /\ (TruthyText(Strip(args.tags)) /\ TagList(Strip(args.tags)) # {})
                     => TagsFilter(d.media[i], Strip(args.tags))
                /\ EqFilters(d.media[i], args.type, args.category, args.subcategory)}
      page == IF args.page < 1 THEN 1 ELSE args.page
  IN Result([Resp(200, "index.html") EXCEPT
               !.media = Page(hit, (page - 1) * per_page, per_page)], d)

\* commit_fails: db.session.commit() raises; the except branch removes the
\* saved file and flashes the failure
upload_form(d, u, form, file, commit_fails) ==
  IF ~Authenticated(u) THEN login_required(d)
  ELSE
    LET title == Strip(form.title)
        category == form.category
        subcategory == form.subcategory
    IN IF file = NoFile THEN Redirect(d, "danger", "No file part")
       ELSE IF file = <<>> THEN Redirect(d, "danger", "No selected file")
       ELSE IF ~allowed_file(file) THEN Redirect(d, "danger", "File type not allowed")
       ELSE IF title = <<>> THEN Redirect(d, "danger", "Title is required.")
       ELSE IF category # "" /\ category \notin {"image", "audio", "video", "ebook", "other", ""}
         THEN Redirect(d, "danger", "Invalid category selected.")
       ELSE IF subcategory # "" /\ subcategory \notin
                 {"songs", "movies", "short_clip", "music", "study", "reference",
                  "fiction", "non_fiction", ""}
         THEN Redirect(d, "danger", "Invalid subcategory selected.")
       ELSE
         LET original_filename == secure_filename(file)
             file_extension == Lower(splitext_ext(original_filename))
             new_filename == [uuid |-> NewUuid(d), ext |-> file_extension]
             file_type == get_file_type(original_filename)
             new_id == NewId(DOMAIN d.media)
             new_media ==
               [title |-> title,
                description |-> Strip(form.description),
                tags |-> Strip(form.tags),
                filename |-> new_filename,
                file_type |-> file_type,
                category |-> IF category # "" THEN category ELSE file_type,
                subcategory |-> subcategory,
                user_id |-> u]
         IN IF commit_fails
              THEN Redirect(remove_if_exists([d EXCEPT !.files = @ \cup {new_filename}],
                                             new_filename),
                            "danger", "Failed to upload media.")
            ELSE Result([Resp(302, "Media uploaded successfully!") EXCEPT
                           !.flash = "success", !.media = {new_id}],
                        [d EXCEPT !.files = @ \cup {new_filename},
                                  !.media = Put(@, new_id, new_media)])

\* media_page: no login_required, no owner check
media_page(d, u, media_id) ==
  IF media_id \notin DOMAIN d.media THEN Abort(d, 404, "404.html")
  ELSE Result([Resp(200, "media.html") EXCEPT !.media = {media_id}], d)

\* method: "GET" or "POST"
edit_media(d, u, media_id, method, form) ==
  IF ~Authenticated(u) THEN login_required(d)
  ELSE IF media_id \notin DOMAIN d.media THEN Abort(d, 404, "404.html")
  ELSE IF d.media[media_id].user_id # u
    THEN Redirect(d, "danger", "You are not authorized to edit this media.")
  ELSE IF method # "POST"
    THEN Result([Resp(200, "edit.html") EXCEPT !.media = {media_id}], d)
  ELSE
    LET title == Strip(form.title)
        category == form.category
        subcategory == form.subcategory
        shown(msg) == Result([Resp(200, msg) EXCEPT !.flash = "danger",
                                                   !.media = {media_id}], d)
    IN IF title = <<>> THEN shown("Title is required.")
       ELSE IF category # "" /\ category \notin {"image", "audio", "video", "ebook", "other", ""}
         THEN shown("Invalid category selected.")
       ELSE IF subcategory # "" /\ subcategory \notin
                 {"songs", "movies", "short_clip", "music", "study", "reference",
                  "fiction", "non_fiction", ""}
         THEN shown("Invalid subcategory selected.")
       ELSE Redirect([d EXCEPT !.media[media_id] =
                        [@ EXCEPT !.title = title,
                                  !.description = Strip(form.description),
                                  !.tags = Strip(form.tags),
                                  !.category = category,
                                  !.subcategory = subcategory]],
                     "success", "Media updated successfully!")

delete_media_page(d, u, media_id, os_fails) ==
  IF ~Authenticated(u) THEN login_required(d)
  ELSE IF media_id \notin DOMAIN d.media THEN Abort(d, 404, "404.html")
  ELSE IF d.media[media_id].user_id # u
    THEN Redirect(d, "danger", "You are not authorized to delete this media.")
  ELSE
    LET file_path == d.media[media_id].filename
        removed == [d EXCEPT !.files = @ \ {file_path}]
    IN IF file_path \in d.files /\ os_fails
         THEN Redirect(d, "danger", "Failed to delete media file.")
       ELSE IF ~MediaDeleteCommits(d, media_id)
         THEN Redirect(removed, "danger", "Failed to delete media metadata.")
       ELSE Redirect([removed EXCEPT !.media = Drop(@, media_id)],
                     "success", "Media deleted successfully!")

\* search_media_by_title: no login_required, no owner filter
search_media_by_title(d, u, q) ==
  LET query_str == Strip(q)
      hit == IF query_str = <<>> THEN {}
             ELSE {i \in DOMAIN d.media : TitleLike(d.media[i], query_str)}
  IN Result([Resp(200, "json") EXCEPT !.media = Page(hit, 0, search_limit)], d)

\* ------------------------------------------------------------ playlist rows

\* .first() of filter_by(playlist_id=..., media_id=...): the table keeps no
\* rowid here; of several rows for one pair the one of least order_index
FirstRow(d, playlist_id, media_id) ==
  LET rs == PairRows(d, playlist_id, media_id)
  IN CHOOSE r \in rs : \A x \in rs : r.order_index <= x.order_index

\* db.session.add(PlaylistMedia(...))
InsertRow(d, row) == [d EXCEPT !.assoc = @ (+) SetToBag({row})]

\* Faulty variant of DeleteRow: the rows behind the deleted one move up by one
DeleteRow_compacting(d, row) ==
  LET moved(r) == IF r.playlist_id = row.playlist_id /\ r.order_index > row.order_index
                    THEN [r EXCEPT !.order_index = @ - 1] ELSE r
  IN [d EXCEPT !.assoc = SetToBag({moved(r) : r \in (DOMAIN @) \ {row}})]

\* db.session.delete(playlist_media_item)
DeleteRow(d, row) == [d EXCEPT !.assoc = @ (-) SetToBag({row})]

\* Faulty variant of DeletePlaylistRows: the relationship has no cascade
DeletePlaylistRows_no_cascade(d, playlist_id) == d

\* cascade="all, delete-orphan" on Playlist.media_items
DeletePlaylistRows(d, playlist_id) ==
  [d EXCEPT !.assoc = [r \in (DOMAIN @) \ PlaylistRows(d, playlist_id) |-> @[r]]]

\* db.session.delete(playlist) with its cascade, committed
DeletePlaylistCascade(d, playlist_id) ==
  [DeletePlaylistRows(d, playlist_id) EXCEPT !.playlists = Drop(@, playlist_id)]

\* Faulty variant of next_order: the number of rows of the playlist, plus one
next_order_by_count(d, playlist_id) == Cardinality(PlaylistRows(d, playlist_id)) + 1

\* db.func.max(PlaylistMedia.order_index) of the playlist, then (max or 0) + 1
next_order(d, playlist_id) ==
  LET rs == PlaylistRows(d, playlist_id)
      max_order == IF rs = {} THEN 0 ELSE Max({r.order_index : r \in rs})
  IN max_order + 1

\* Faulty variant of TypeMismatch: the types are never compared
TypeMismatch_unchecked(d, playlist_id, media_id) == FALSE

\* playlist.playlist_type != 'all' and media_item.file_type != playlist.playlist_type
TypeMismatch(d, playlist_id, media_id) ==
  /\ d.playlists[playlist_id].playlist_type # "all"
  /\ d.media[media_id].file_type # d.playlists[playlist_id].playlist_type

\* Faulty variant of OrderByOrderIndex: the query has no order_by, the rows
\* come in any order
OrderByOrderIndex_unordered(d, playlist_id) ==
  LET rs == PlaylistRows(d, playlist_id)
      n == Cardinality(rs)
  IN {s \in [1..n -> rs] : \A i, j \in 1..n : i # j => s[i] # s[j]}

\* order_by(PlaylistMedia.order_index): every order the query may return the
\* playlist's rows in (ties have no defined order), as sequences of rows
OrderByOrderIndex(d, playlist_id) ==
  LET rs == PlaylistRows(d, playlist_id)
      n == Cardinality(rs)
  IN {s \in [1..n -> rs] :
        /\ \A i, j \in 1..n : i # j => s[i] # s[j]
        /\ \A i, j \in 1..n : i < j => s[i].order_index <= s[j].order_index}

\* media_items.append(pm.media) for each row
MediaOf(rowseq) == [i \in DOMAIN rowseq |-> rowseq[i].media_id]

\* ------------------------------------------------------------ api.py: playlists

PlaylistList_get(d, u) ==
  IF ~Authenticated(u) THEN api_login_required(d)
  ELSE Result([Resp(200, "OK") EXCEPT
                 !.playlists = {i \in DOMAIN d.playlists : d.playlists[i].user_id = u}], d)

PlaylistList_post(d, u, data) ==
  IF ~validate_payload(data, {"name", "playlist_type"}) THEN ValidationFailed(d)
  ELSE IF ~Authenticated(u) THEN api_login_required(d)
  ELSE
    LET new_id == NewId(DOMAIN d.playlists)
        new_playlist == [name |-> data.name,
                         description |-> Get(data, "description", NullText),
                         playlist_type |-> data.playlist_type,
                         user_id |-> u]
    IN Result([Resp(201, "Created") EXCEPT !.playlists = {new_id}],
              [d EXCEPT !.playlists = Put(@, new_id, new_playlist)])

PlaylistItem_get(d, u, playlist_id) ==
  IF ~Authenticated(u) THEN api_login_required(d)
  ELSE IF OwnPlaylist(d, u, playlist_id)
    THEN Result([Resp(200, "OK") EXCEPT !.playlists = {playlist_id}], d)
  ELSE Abort(d, 404, "Playlist not found or not authorized")

PlaylistItem_put(d, u, playlist_id, data) ==
  IF ~validate_payload(data, {"name", "playlist_type"}) THEN ValidationFailed(d)
  ELSE IF ~Authenticated(u) THEN api_login_required(d)
  ELSE IF ~OwnPlaylist(d, u, playlist_id)
    THEN Abort(d, 404, "Playlist not found or not authorized")
  ELSE
    LET old == d.playlists[playlist_id]
        new == [old EXCEPT !.name = Get(data, "name", old.name),
                           !.description = Get(data, "description", old.description),
                           !.playlist_type = Get(data, "playlist_type", old.playlist_type)]
    IN Result([Resp(200, "OK") EXCEPT !.playlists = {playlist_id}],
              [d EXCEPT !.playlists[playlist_id] = new])

PlaylistItem_delete(d, u, playlist_id) ==
  IF ~Authenticated(u) THEN api_login_required(d)
  ELSE IF ~OwnPlaylist(d, u, playlist_id)
    THEN Abort(d, 404, "Playlist not found or not authorized")
  ELSE Result(Resp(204, ""), DeletePlaylistCascade(d, playlist_id))

\* Faulty variant of PlaylistAddMedia_post: no look-up of an existing row
PlaylistAddMedia_post_no_lookup(d, u, playlist_id, media_id) ==
  IF ~Authenticated(u) THEN api_login_required(d)
  ELSE IF ~OwnPlaylist(d, u, playlist_id)
    THEN Abort(d, 404, "Playlist not found or not authorized")
  ELSE IF media_id \notin DOMAIN d.media THEN Abort(d, 404, "Media item not found")
  ELSE IF TypeMismatch(d, playlist_id, media_id)
    THEN Abort(d, 400, "Cannot add to a playlist of another type")
  ELSE Result(Resp(200, "Media added to playlist successfully"),
              InsertRow(d, PlaylistMediaRow(playlist_id, media_id,
                                            next_order(d, playlist_id))))

PlaylistAddMedia_post(d, u, playlist_id, media_id) ==
  IF ~Authenticated(u) THEN api_login_required(d)
  ELSE IF ~OwnPlaylist(d, u, playlist_id)
    THEN Abort(d, 404, "Playlist not found or not authorized")
  ELSE IF media_id \notin DOMAIN d.media THEN Abort(d, 404, "Media item not found")
  ELSE IF TypeMismatch(d, playlist_id, media_id)
    THEN Abort(d, 400, "Cannot add to a playlist of another type")
  ELSE IF PairRows(d, playlist_id, media_id) # {}
    THEN Result(Resp(200, "Media already in playlist"), d)
  ELSE Result(Resp(200, "Media added to playlist successfully"),
              InsertRow(d, PlaylistMediaRow(playlist_id, media_id,
                                            next_order(d, playlist_id))))

PlaylistRemoveMedia_post(d, u, playlist_id, media_id) ==
  IF ~Authenticated(u) THEN api_login_required(d)
  ELSE IF ~OwnPlaylist(d, u, playlist_id)
    THEN Abort(d, 404, "Playlist not found or not authorized")
  ELSE IF PairRows(d, playlist_id, media_id) = {}
    THEN Abort(d, 404, "Media not found in playlist")
  ELSE Result(Resp(200, "Media removed from playlist successfully"),
              DeleteRow(d, FirstRow(d, playlist_id, media_id)))

\* rowseq: the order the ORDER BY query returned the playlist's rows in
PlaylistMediaList_get(d, u, playlist_id, rowseq) ==
  IF ~Authenticated(u) THEN api_login_required(d)
  ELSE IF ~OwnPlaylist(d, u, playlist_id)
    THEN Abort(d, 404, "Playlist not found or not authorized")
  ELSE Result([Resp(200, "OK") EXCEPT !.list = MediaOf(rowseq),
                                      !.media = Range(MediaOf(rowseq))], d)

\* ------------------------------------------------------------ app.py: playlists

playlists_page(d, u) ==
  IF ~Authenticated(u) THEN login_required(d)
  ELSE Result([Resp(200, "playlists.html") EXCEPT
                 !.playlists = {i \in DOMAIN d.playlists : d.playlists[i].user_id = u}], d)

create_playlist(d, u, method, form) ==
  IF ~Authenticated(u) THEN login_required(d)
  ELSE IF method # "POST" THEN Result(Resp(200, "create_playlist.html"), d)
  ELSE
    LET name == Strip(form.name)
        playlist_type == form.playlist_type
    IN IF name = <<>>
         THEN Result([Resp(200, "Playlist Name is required.") EXCEPT !.flash = "danger"], d)
       ELSE IF playlist_type = "" \/ playlist_type \notin {"audio", "video", "ebook", "all", ""}
         THEN Result([Resp(200, "Valid Playlist Type is required.") EXCEPT
                        !.flash = "danger"], d)
       ELSE
         LET new_id == NewId(DOMAIN d.playlists)
             new_playlist == [name |-> name,
                              description |-> Strip(form.description),
                              playlist_type |-> playlist_type,
                              user_id |-> u]
         IN Result([Resp(302, "Playlist created successfully!") EXCEPT
                      !.flash = "success", !.playlists = {new_id}],
                   [d EXCEPT !.playlists = Put(@, new_id, new_playlist)])

view_playlist(d, u, playlist_id, rowseq) ==
  IF ~Authenticated(u) THEN login_required(d)
  ELSE IF ~OwnPlaylist(d, u, playlist_id) THEN Abort(d, 404, "404.html")
  ELSE Result([Resp(200, "view_playlist.html") EXCEPT
                 !.playlists = {playlist_id},
                 !.list = MediaOf(rowseq),
                 !.media = Range(MediaOf(rowseq))], d)

add_media_to_playlist(d, u, media_id, playlist_id) ==
  IF ~Authenticated(u) THEN login_required(d)
  ELSE IF media_id = MissingId \/ playlist_id = MissingId
    THEN Redirect(d, "danger", "Media ID and Playlist ID are required.")
  ELSE IF ~OwnPlaylist(d, u, playlist_id) THEN Abort(d, 404, "404.html")
  ELSE IF media_id \notin DOMAIN d.media THEN Redirect(d, "danger", "Media item not found.")
  ELSE IF TypeMismatch(d, playlist_id, media_id)
    THEN Redirect(d, "danger", "Cannot add to a playlist of another type")
  ELSE IF PairRows(d, playlist_id, media_id) # {}
    THEN Redirect(d, "warning", "Media item is already in this playlist.")
  ELSE Redirect(InsertRow(d, PlaylistMediaRow(playlist_id, media_id,
                                              next_order(d, playlist_id))),
                "success", "Media added to playlist successfully!")

remove_media_from_playlist(d, u, playlist_id, media_id) ==
  IF ~Authenticated(u) THEN login_required(d)
  ELSE IF ~OwnPlaylist(d, u, playlist_id) THEN Abort(d, 404, "404.html")
  ELSE IF media_id = MissingId THEN Redirect(d, "danger", "Media ID is required.")
  ELSE IF PairRows(d, playlist_id, media_id) = {}
    THEN Redirect(d, "warning", "Media not found in this playlist.")
  ELSE Redirect(DeleteRow(d, FirstRow(d, playlist_id, media_id)),
                "success", "Media removed from playlist successfully!")

\* Faulty variant of SetOrderIndex: positions are counted from one
SetOrderIndex_one_based(d, row, position) ==
  [d EXCEPT !.assoc = (@ (-) SetToBag({row}))
                        (+) SetToBag({[row EXCEPT !.order_index = position + 1]})]

\* playlist_media_item.order_index = index
SetOrderIndex(d, row, position) ==
  InsertRow(DeleteRow(d, row), [row EXCEPT !.order_index = position])

\* Faulty variant of rollback: the rows already updated stay updated
rollback_keeps_updates(before, current) == current

\* db.session.rollback(): what the loop changed since the request began is undone
rollback(before, current) == before

\* The loop over enumerate(media_ids_order) from position i (one-based here,
\* the index written is i - 1): ok with the updated rows, or the first id
\* that is no member, rolled back.
RECURSIVE ReorderLoop(_, _, _, _, _)
ReorderLoop(before, d, playlist_id, media_ids_order, i) ==
  IF i > Len(media_ids_order) THEN [ok |-> TRUE, db |-> d]
  ELSE IF PairRows(d, playlist_id, media_ids_order[i]) = {}
    THEN [ok |-> FALSE, db |-> rollback(before, d)]
  ELSE ReorderLoop(before,
                   SetOrderIndex(d, FirstRow(d, playlist_id, media_ids_order[i]), i - 1),
                   playlist_id, media_ids_order, i + 1)

\* Faulty variant of reorder_media_in_playlist: the members left out of the
\* list are moved behind the listed ones
reorder_media_in_playlist_renumbering(d, u, playlist_id, media_ids_order) ==
  IF ~Authenticated(u) THEN login_required(d)
  ELSE IF ~OwnPlaylist(d, u, playlist_id) THEN Abort(d, 404, "404.html")
  ELSE IF media_ids_order = <<>> THEN Abort(d, 400, "Invalid media order provided.")
  ELSE
    LET done == ReorderLoop(d, d, playlist_id, media_ids_order, 1)
        moved(r) == IF r.playlist_id = playlist_id /\ r.media_id \notin Range(media_ids_order)
                      THEN [r EXCEPT !.order_index = Len(media_ids_order)] ELSE r
    IN IF done.ok
         THEN Result(Resp(200, "Playlist reordered successfully!"),
                     [done.db EXCEPT !.assoc = SetToBag({moved(r) : r \in DOMAIN @})])
       ELSE Abort(done.db, 400, "Media ID not found in playlist")

reorder_media_in_playlist(d, u, playlist_id, media_ids_order) ==
  IF ~Authenticated(u) THEN login_required(d)
  ELSE IF ~OwnPlaylist(d, u, playlist_id) THEN Abort(d, 404, "404.html")
  ELSE IF media_ids_order = <<>> THEN Abort(d, 400, "Invalid media order provided.")
  ELSE
    LET done == ReorderLoop(d, d, playlist_id, media_ids_order, 1)
    IN IF done.ok THEN Result(Resp(200, "Playlist reordered successfully!"), done.db)
       ELSE Abort(done.db, 400, "Media ID not found in playlist")

delete_playlist(d, u, playlist_id) ==
  IF ~Authenticated(u) THEN login_required(d)
  ELSE IF ~OwnPlaylist(d, u, playlist_id) THEN Abort(d, 404, "404.html")
  ELSE Redirect(DeletePlaylistCascade(d, playlist_id),
                "success", "Playlist deleted successfully!")

\* the form lists the media item (any owner) and the caller's playlists
add_to_playlist_form(d, u, media_id) ==
  IF ~Authenticated(u) THEN login_required(d)
  ELSE IF media_id \notin DOMAIN d.media THEN Abort(d, 404, "404.html")
  ELSE Result([Resp(200, "add_to_playlist_form.html") EXCEPT
                 !.media = {media_id},
                 !.playlists = {i \in DOMAIN d.playlists : d.playlists[i].user_id = u}], d)

\* ------------------------------------------------------------ requests

\* The values the requests of a specification carry: who calls, the ids and
\* the id lists named, the uploaded files, the largest order_index explored.
IdSeqsOver(ids, n) == UNION {[1..k -> ids] : k \in 0..n}

Full ==
  [callers |-> Callers, uploaders |-> Callers,
   media_ids |-> MediaIds, playlist_ids |-> PlaylistIds,
   seqs |-> IdSeqsOver(MediaIds, MaxLen),
   files |-> {<<"a", ".", "mp3">>, <<"a", ".", "MP4">>, <<"a", ".", "exe">>, NoFile, <<>>},
   max_order |-> MaxOrder]

Engine ==
  [callers |-> Callers, uploaders |-> {1},
   media_ids |-> 1..MaxEngineMedia, playlist_ids |-> PlaylistIds,
   seqs |-> IdSeqsOver(1..MaxEngineMedia, MaxEngineLen),
   files |-> {<<"a", ".", "mp3">>, <<"a", ".", "MP4">>},
   max_order |-> MaxEngineOrder]

UploadArgs ==
  [title : {<<"a">>, NullText}, description : {<<>>}, tags : {<<>>},
   file_type : {None}, category : {None}, subcategory : {""}]

UploadForms ==
  [title : {<<"a">>, <<>>}, description : {<<>>}, tags : {<<>>},
   category : {""}, subcategory : {""}]

MediaPayloads == {[title |-> <<"b">>, category |-> "audio"]}

EditForms ==
  [title : {<<"b">>, <<>>}, description : {<<>>}, tags : {<<>>},
   category : {"audio"}, subcategory : {""}]

ListArgs ==
  [title : {NullText, <<"a">>}, tags : {NullText}, file_type : {None, "audio"},
   category : {None}, subcategory : {None}, limit : {20}, offset : {0}]

IndexArgs ==
  [tags : {<<>>}, type : {"", "audio"}, category : {""}, subcategory : {""}, page : {1}]

Queries == {<<>>, <<"a">>}

PlaylistTypes == {"audio", "all"}

PlaylistPayloads == [name : {<<"p">>}, playlist_type : PlaylistTypes]

PlaylistForms ==
  [name : {<<"p">>, <<>>}, description : {<<>>}, playlist_type : PlaylistTypes \cup {""}]

Methods == {"GET", "POST"}

\* ------------------------------------------------------------ the state machine

\* the size of the tables and of order_index a specification explores
WithinBounds(E, d) ==
  /\ DOMAIN d.media \subseteq E.media_ids
  /\ DOMAIN d.playlists \subseteq E.playlist_ids
  /\ \A r \in Rows(d) : r.order_index <= E.max_order

\* the worker slots and a slot with no request in progress
Slots == 1..MaxRequests

Idle == [pc |-> "idle", surface |-> "", playlist_id |-> 0, media_id |-> 0, next_order |-> 0]

\* init_db(): the tables exist and are empty, the media directory is empty
Init ==
  /\ media = <<>>
  /\ files = {}
  /\ playlists = <<>>
  /\ assoc = EmptyBag
  /\ requests = [slot \in Slots |-> Idle]

\* One request, handled from start to end: the database and the file store
\* the handler's result r leaves behind become the state.
Handle(E, r) ==
  /\ WithinBounds(E, r.db)
  /\ media' = r.db.media
  /\ files' = r.db.files
  /\ playlists' = r.db.playlists
  /\ assoc' = r.db.assoc
  /\ UNCHANGED requests

ApiListMedia(E) ==
  \E u \in E.callers, args \in ListArgs :
    Handle(E, MediaList_get(DB, u, args))

ApiUpload(E) ==
  \E u \in E.uploaders, args \in UploadArgs, file \in E.files :
    Handle(E, MediaList_post(DB, u, args, file, FALSE))

ApiGetMedia(E) ==
  \E u \in E.callers, media_id \in E.media_ids :
    Handle(E, MediaItem_get(DB, u, media_id))

ApiUpdateMedia(E) ==
  \E u \in E.callers, media_id \in E.media_ids, data \in MediaPayloads :
    Handle(E, MediaItem_put(DB, u, media_id, data))

ApiDeleteMedia(E) ==
  \E u \in E.callers, media_id \in E.media_ids, os_fails \in BOOLEAN :
    Handle(E, MediaItem_delete(DB, u, media_id, os_fails))

ApiDownload(E) ==
  \E u \in E.callers, media_id \in E.media_ids :
    Handle(E, MediaDownload_get(DB, u, media_id))

WebIndex(E) ==
  \E u \in E.callers, args \in IndexArgs :
    Handle(E, index(DB, u, args))

WebUpload(E) ==
  \E u \in E.uploaders, form \in UploadForms, file \in E.files :
    Handle(E, upload_form(DB, u, form, file, FALSE))

WebMediaPage(E) ==
  \E u \in E.callers, media_id \in E.media_ids :
    Handle(E, media_page(DB, u, media_id))

WebEditMedia(E) ==
  \E u \in E.callers, media_id \in E.media_ids, method \in Methods, form \in EditForms :
    Handle(E, edit_media(DB, u, media_id, method, form))

WebDeleteMedia(E) ==
  \E u \in E.callers, media_id \in E.media_ids, os_fails \in BOOLEAN :
    Handle(E, delete_media_page(DB, u, media_id, os_fails))

WebSearch(E) ==
  \E u \in E.callers, q \in Queries :
    Handle(E, search_media_by_title(DB, u, q))

ApiListPlaylists(E) ==
  \E u \in E.callers :
    Handle(E, PlaylistList_get(DB, u))

ApiCreatePlaylist(E) ==
  \E u \in E.callers, data \in PlaylistPayloads :
    Handle(E, PlaylistList_post(DB, u, data))

ApiGetPlaylist(E) ==
  \E u \in E.callers, playlist_id \in E.playlist_ids :
    Handle(E, PlaylistItem_get(DB, u, playlist_id))

ApiUpdatePlaylist(E) ==
  \E u \in E.callers, playlist_id \in E.playlist_ids, data \in PlaylistPayloads :
    Handle(E, PlaylistItem_put(DB, u, playlist_id, data))

ApiDeletePlaylist(E) ==
  \E u \in E.callers, playlist_id \in E.playlist_ids :
    Handle(E, PlaylistItem_delete(DB, u, playlist_id))

ApiAddMedia(E) ==
  \E u \in E.callers, playlist_id \in E.playlist_ids, media_id \in E.media_ids :
    Handle(E, PlaylistAddMedia_post(DB, u, playlist_id, media_id))

ApiRemoveMedia(E) ==
  \E u \in E.callers, playlist_id \in E.playlist_ids, media_id \in E.media_ids :
    Handle(E, PlaylistRemoveMedia_post(DB, u, playlist_id, media_id))

ApiListPlaylistMedia(E) ==
  \E u \in E.callers, playlist_id \in E.playlist_ids :
    \E rowseq \in OrderByOrderIndex(DB, playlist_id) :
      Handle(E, PlaylistMediaList_get(DB, u, playlist_id, rowseq))

WebPlaylists(E) ==
  \E u \in E.callers :
    Handle(E, playlists_page(DB, u))

WebCreatePlaylist(E) ==
  \E u \in E.callers, method \in Methods, form \in PlaylistForms :
    Handle(E, create_playlist(DB, u, method, form))

WebViewPlaylist(E) ==
  \E u \in E.callers, playlist_id \in E.playlist_ids :
    \E rowseq \in OrderByOrderIndex(DB, playlist_id) :
      Handle(E, view_playlist(DB, u, playlist_id, rowseq))

WebAddMedia(E) ==
  \E u \in E.callers, playlist_id \in E.playlist_ids \cup {MissingId},
     media_id \in E.media_ids \cup {MissingId} :
    Handle(E, add_media_to_playlist(DB, u, media_id, playlist_id))

WebRemoveMedia(E) ==
  \E u \in E.callers, playlist_id \in E.playlist_ids,
     media_id \in E.media_ids \cup {MissingId} :
    Handle(E, remove_media_from_playlist(DB, u, playlist_id, media_id))

WebReorder(E) ==
  \E u \in E.callers, playlist_id \in E.playlist_ids, media_ids_order \in E.seqs :
    Handle(E, reorder_media_in_playlist(DB, u, playlist_id, media_ids_order))

WebDeletePlaylist(E) ==
  \E u \in E.callers, playlist_id \in E.playlist_ids :
    Handle(E, delete_playlist(DB, u, playlist_id))

WebAddToPlaylistForm(E) ==
  \E u \in E.callers, media_id \in E.media_ids :
    Handle(E, add_to_playlist_form(DB, u, media_id))

\* every handler of the two surfaces
Next ==
  \/ ApiListMedia(Full)
  \/ ApiUpload(Full)
  \/ ApiGetMedia(Full)
  \/ ApiUpdateMedia(Full)
  \/ ApiDeleteMedia(Full)
  \/ ApiDownload(Full)
  \/ WebIndex(Full)
  \/ WebUpload(Full)
  \/ WebMediaPage(Full)
  \/ WebEditMedia(Full)
  \/ WebDeleteMedia(Full)
  \/ WebSearch(Full)
  \/ ApiListPlaylists(Full)
  \/ ApiCreatePlaylist(Full)
  \/ ApiGetPlaylist(Full)
  \/ ApiUpdatePlaylist(Full)
  \/ ApiDeletePlaylist(Full)
  \/ ApiAddMedia(Full)
  \/ ApiRemoveMedia(Full)
  \/ ApiListPlaylistMedia(Full)
  \/ WebPlaylists(Full)
  \/ WebCreatePlaylist(Full)
  \/ WebViewPlaylist(Full)
  \/ WebAddMedia(Full)
  \/ WebRemoveMedia(Full)
  \/ WebReorder(Full)
  \/ WebDeletePlaylist(Full)
  \/ WebAddToPlaylistForm(Full)

Spec == Init /\ [][Next]_vars

\* the playlist engine: uploads to have media, then the playlist handlers
NextEngine ==
  \/ ApiUpload(Engine)
  \/ WebUpload(Engine)
  \/ ApiCreatePlaylist(Engine)
  \/ WebCreatePlaylist(Engine)
  \/ ApiAddMedia(Engine)
  \/ WebAddMedia(Engine)
  \/ ApiRemoveMedia(Engine)
  \/ WebRemoveMedia(Engine)
  \/ WebReorder(Engine)
  \/ ApiListPlaylistMedia(Engine)
  \/ WebViewPlaylist(Engine)
  \/ ApiDeletePlaylist(Engine)
  \/ WebDeletePlaylist(Engine)

SpecEngine == Init /\ [][NextEngine]_vars


\* ------------------------------------------------------------ interleaved AddMedia

\* Two workers (threads or processes of the web server) serve AddMedia
\* requests at once. Each query and each commit of the handler is one step;
\* a session holds no lock between its SELECTs and its INSERT, so the steps
\* of two requests interleave freely and both commits succeed (the table
\* has no unique constraint to refuse the second).

Race ==
  [callers |-> {1}, uploaders |-> {1},
   media_ids |-> 1..MaxRaceMedia, playlist_ids |-> PlaylistIds,
   seqs |-> {<<>>}, files |-> {<<"a", ".", "mp3">>},
   max_order |-> MaxRaceOrder]

\* The look-ups before the insert all pass: the playlist is the caller's, the
\* media exists, the types agree, no row of the pair is found
AddMediaPasses(d, u, playlist_id, media_id) ==
  /\ Authenticated(u)
  /\ OwnPlaylist(d, u, playlist_id)
  /\ media_id \in DOMAIN d.media
  /\ ~TypeMismatch(d, playlist_id, media_id)
  /\ PairRows(d, playlist_id, media_id) = {}

\* Faulty variant of CommitAdd: the order_index is computed again from the
\* table at the moment of the insert
CommitAdd_reads_again(d, req) ==
  InsertRow(d, PlaylistMediaRow(req.playlist_id, req.media_id,
                                next_order(d, req.playlist_id)))

\* db.session.add(PlaylistMedia(..., order_index=next_order)); commit(), with
\* the next_order the request computed from the max it read
CommitAdd(d, req) ==
  InsertRow(d, PlaylistMediaRow(req.playlist_id, req.media_id, req.next_order))

\* the playlist, media, type and existing-row look-ups of a request that
\* goes on to insert (a request they stop ends without a write)
AddMediaBegin(E) ==
  \E slot \in Slots, surface \in {"api", "web"}, u \in E.callers,
     playlist_id \in E.playlist_ids, media_id \in E.media_ids :
    /\ requests[slot] = Idle
    /\ AddMediaPasses(DB, u, playlist_id, media_id)
    /\ requests' = [requests EXCEPT ![slot] =
                      [pc |-> "checked", surface |-> surface,
                       playlist_id |-> playlist_id, media_id |-> media_id,
                       next_order |-> 0]]
    /\ UNCHANGED <<media, files, playlists, assoc>>

\* max_order = query(max(order_index)); next_order = (max_order or 0) + 1
AddMediaReadMax(E) ==
  \E slot \in Slots :
    /\ requests[slot].pc = "checked"
    /\ requests' = [requests EXCEPT ![slot] =
                      [requests[slot] EXCEPT
                         !.pc = "read",
                         !.next_order = next_order(DB, requests[slot].playlist_id)]]
    /\ UNCHANGED <<media, files, playlists, assoc>>

\* the insert and its commit; the request ends
AddMediaCommit(E) ==
  \E slot \in Slots :
    /\ requests[slot].pc = "read"
    /\ WithinBounds(E, CommitAdd(DB, requests[slot]))
    /\ assoc' = CommitAdd(DB, requests[slot]).assoc
    /\ requests' = [requests EXCEPT ![slot] = Idle]
    /\ UNCHANGED <<media, files, playlists>>

NextRace ==
  \/ ApiUpload(Race)
  \/ ApiCreatePlaylist(Race)
  \/ AddMediaBegin(Race)
  \/ AddMediaReadMax(Race)
  \/ AddMediaCommit(Race)
  \/ ApiRemoveMedia(Race)

SpecRace == Init /\ [][NextRace]_vars

\* ------------------------------------------------------------ several playlists

\* The playlist handlers with two playlists, of one owner or of two
Cascade ==
  [callers |-> Callers, uploaders |-> {1},
   media_ids |-> 1..MaxCascadeMedia, playlist_ids |-> 1..MaxCascadePlaylists,
   seqs |-> IdSeqsOver(1..MaxCascadeMedia, MaxCascadeLen),
   files |-> {<<"a", ".", "mp3">>},
   max_order |-> MaxCascadeOrder]

NextCascade ==
  \/ ApiUpload(Cascade)
  \/ ApiCreatePlaylist(Cascade)
  \/ ApiAddMedia(Cascade)
  \/ WebAddMedia(Cascade)
  \/ ApiRemoveMedia(Cascade)
  \/ WebReorder(Cascade)
  \/ ApiDeletePlaylist(Cascade)
  \/ WebDeletePlaylist(Cascade)

SpecCascade == Init /\ [][NextCascade]_vars

\* ------------------------------------------------------------ Reorder in steps

\* A worker serves a Reorder request while other workers serve readers. Each
\* query of the loop, with the assignment that follows it, is one step; the
\* session's updates are flushed inside its transaction and reach the table
\* with the one commit behind the loop. SQLite shows other connections
\* committed rows only and admits one write transaction at a time, so no
\* other request writes while the transaction of a Reorder is open.

Stepwise ==
  [callers |-> {1}, uploaders |-> {1},
   media_ids |-> 1..MaxReorderMedia, playlist_ids |-> PlaylistIds,
   seqs |-> IdSeqsOver(1..MaxReorderMedia, MaxReorderLen),
   files |-> {<<"a", ".", "mp3">>},
   max_order |-> MaxReorderOrder]

\* no Reorder has its transaction open
NoOpenTransaction == \A slot \in Slots : requests[slot].pc # "loop"

\* Faulty variant of flush: every UPDATE is committed as it is issued
flush_autocommit(d, session) == session

\* the committed tables after a session flushed an UPDATE inside its
\* transaction (db.session.begin_nested()): as they were
flush(d, session) == d

\* the playlist look-up and the check of the list pass; begin_nested()
ReorderBegin(E) ==
  \E slot \in Slots, u \in E.callers, playlist_id \in E.playlist_ids,
     media_ids_order \in E.seqs :
    /\ requests[slot] = Idle
    /\ NoOpenTransaction
    /\ Authenticated(u)
    /\ OwnPlaylist(DB, u, playlist_id)
    /\ media_ids_order # <<>>
    /\ requests' = [requests EXCEPT ![slot] =
                      [pc |-> "loop", surface |-> "web",
                       playlist_id |-> playlist_id, media_id |-> 0, next_order |-> 0,
                       media_ids_order |-> media_ids_order, position |-> 1,
                       session |-> DB]]
    /\ UNCHANGED <<media, files, playlists, assoc>>

\* one round of the loop: the row of the next id is looked up in the session
\* and its order_index assigned, or the id is no member and the session is
\* rolled back and the request answered 400
ReorderStep(E) ==
  \E slot \in Slots :
    /\ requests[slot].pc = "loop"
    /\ requests[slot].position <= Len(requests[slot].media_ids_order)
    /\ LET req == requests[slot]
           media_id == req.media_ids_order[req.position]
       IN IF PairRows(req.session, req.playlist_id, media_id) = {}
            THEN /\ requests' = [requests EXCEPT ![slot] = Idle]
                 /\ assoc' = rollback(DB, req.session).assoc
            ELSE LET updated == SetOrderIndex(req.session,
                                              FirstRow(req.session, req.playlist_id, media_id),
                                              req.position - 1)
                 IN /\ requests' = [requests EXCEPT ![slot] =
                                      [req EXCEPT !.session = updated,
                                                  !.position = req.position + 1]]
                    /\ assoc' = flush(DB, updated).assoc
    /\ UNCHANGED <<media, files, playlists>>

\* db.session.commit() behind the loop; the request ends
ReorderCommit(E) ==
  \E slot \in Slots :
    /\ requests[slot].pc = "loop"
    /\ requests[slot].position > Len(requests[slot].media_ids_order)
    /\ WithinBounds(E, requests[slot].session)
    /\ assoc' = requests[slot].session.assoc
    /\ requests' = [requests EXCEPT ![slot] = Idle]
    /\ UNCHANGED <<media, files, playlists>>

NextReorder ==
  \/ NoOpenTransaction /\ ApiUpload(Stepwise)
  \/ NoOpenTransaction /\ ApiCreatePlaylist(Stepwise)
  \/ NoOpenTransaction /\ ApiAddMedia(Stepwise)
  \/ NoOpenTransaction /\ ApiRemoveMedia(Stepwise)
  \/ ReorderBegin(Stepwise)
  \/ ReorderStep(Stepwise)
  \/ ReorderCommit(Stepwise)
  \/ ApiListPlaylistMedia(Stepwise)
  \/ WebViewPlaylist(Stepwise)

SpecReorder == Init /\ [][NextReorder]_vars

\* ------------------------------------------------------------ failing commits

\* Uploads and deletes where the store may refuse the commit of an upload
\* (the database is locked or the disk is full): the file is written
\* before the row is inserted.

Storage ==
  [callers |-> Users, uploaders |-> Users,
   media_ids |-> 1..MaxStorageMedia, playlist_ids |-> {},
   seqs |-> {<<>>}, files |-> {<<"a", ".", "mp3">>, <<"a", ".", "MP4">>},
   max_order |-> 0]

\* room in the file store for one more file
RoomForFile == Cardinality(files) < MaxStorageFiles

ApiUploadCommitFails(E) ==
  \E u \in E.uploaders, args \in UploadArgs, file \in E.files :
    Handle(E, MediaList_post(DB, u, args, file, TRUE))

WebUploadCommitFails(E) ==
  \E u \in E.uploaders, form \in UploadForms, file \in E.files :
    Handle(E, upload_form(DB, u, form, file, TRUE))

NextStorage ==
  \/ RoomForFile /\ ApiUpload(Storage)
  \/ RoomForFile /\ WebUpload(Storage)
  \/ RoomForFile /\ ApiUploadCommitFails(Storage)
  \/ WebUploadCommitFails(Storage)
  \/ ApiDeleteMedia(Storage)
  \/ WebDeleteMedia(Storage)

SpecStorage == Init /\ [][NextStorage]_vars

\* ------------------------------------------------------------------ claims

Surfaces == {"api", "web"}

\* A response that reports a failure: an HTTP error status, or a redirect
\* whose flashed message has the category the templates render as an error
Failed(resp) == resp.code >= 400 \/ resp.flash = "danger"

\* AddMedia on either surface
AddMedia(surface, d, u, playlist_id, media_id) ==
  IF surface = "api" THEN PlaylistAddMedia_post(d, u, playlist_id, media_id)
  ELSE add_media_to_playlist(d, u, media_id, playlist_id)

\* RemoveMedia on either surface
RemoveMedia(surface, d, u, playlist_id, media_id) ==
  IF surface = "api" THEN PlaylistRemoveMedia_post(d, u, playlist_id, media_id)
  ELSE remove_media_from_playlist(d, u, playlist_id, media_id)

\* ListMedia on either surface
ListMedia(surface, d, u, playlist_id, rowseq) ==
  IF surface = "api" THEN PlaylistMediaList_get(d, u, playlist_id, rowseq)
  ELSE view_playlist(d, u, playlist_id, rowseq)

\* C1: AddMedia is idempotent. In every reachable state, whenever an AddMedia
\* of media m to playlist p succeeds, the pair (p, m) has exactly one row, and
\* a second AddMedia of the same pair, on either surface, succeeds too and
\* leaves every table as the first call left it.
C1_AddMediaIdempotent ==
  \A u \in Users, p \in DOMAIN playlists, m \in DOMAIN media, s1, s2 \in Surfaces :
    LET first == AddMedia(s1, DB, u, p, m)
        second == AddMedia(s2, first.db, u, p, m)
    IN ~Failed(first.resp) =>
         /\ PairCount(first.db, p, m) = 1
         /\ ~Failed(second.resp)
         /\ second.db = first.db
         /\ PairCount(second.db, p, m) = 1

\* C1 happens: a pair has its row, and adding it again is answered with
\* "already in playlist" on both surfaces
C1_Witness ==
  \E u \in Users, p \in DOMAIN playlists, m \in DOMAIN media :
    /\ PairCount(DB, p, m) = 1
    /\ PlaylistAddMedia_post(DB, u, p, m).resp.msg = "Media already in playlist"
    /\ add_media_to_playlist(DB, u, m, p).resp.flash = "warning"

\* C2: AddMedia of a media whose file_type differs from the playlist_type of
\* a playlist that is not of type "all" is rejected as a type mismatch (400 on
\* the REST surface, an error message on the browser surface) and leaves the
\* association rows, and every other table, as they were.
C2_TypeMismatchRejected ==
  \A u \in Users, p \in DOMAIN playlists, m \in DOMAIN media, s \in Surfaces :
    ( /\ playlists[p].user_id = u
      /\ playlists[p].playlist_type # "all"
      /\ media[m].file_type # playlists[p].playlist_type )
    => LET r == AddMedia(s, DB, u, p, m)
       IN /\ Failed(r.resp)
          /\ r.resp.msg = "Cannot add to a playlist of another type"
          /\ s = "api" => r.resp.code = 400
          /\ r.db = DB

\* C2 happens: an audio playlist that already has a member is offered a video
\* by its owner and answers 400
C2_Witness ==
  \E p \in DOMAIN playlists, m \in DOMAIN media :
    /\ playlists[p].playlist_type = "audio"
    /\ media[m].file_type = "video"
    /\ PlaylistRows(DB, p) # {}
    /\ PlaylistAddMedia_post(DB, playlists[p].user_id, p, m).resp.code = 400

\* Reorder, by the owner of the playlist
Reorder(d, playlist_id, ids) ==
  reorder_media_in_playlist(d, d.playlists[playlist_id].user_id, playlist_id, ids)

Members(d, playlist_id) == {r.media_id : r \in PlaylistRows(d, playlist_id)}

OrderIndexOf(d, playlist_id, media_id) == FirstRow(d, playlist_id, media_id).order_index

OrderIndices(d, playlist_id) == {r.order_index : r \in PlaylistRows(d, playlist_id)}

NoRepeats(ids) == \A i, j \in 1..Len(ids) : i # j => ids[i] # ids[j]

LastPosition(ids, media_id) == Max({i \in 1..Len(ids) : ids[i] = media_id})

\* C3 as stated: Reorder(P, ids), every id of ids a member of P, leaves at
\* each zero-based position i the order_index of ids[i] equal to i.
C3_AsStated ==
  \A p \in DOMAIN playlists, ids \in Engine.seqs :
    Range(ids) \subseteq Members(DB, p) =>
      \A i \in 1..Len(ids) : OrderIndexOf(Reorder(DB, p, ids).db, p, ids[i]) = i - 1

\* C3, amended: Reorder(P, ids), ids non-empty and every id of ids a member
\* of P, succeeds and leaves each listed id with the zero-based index of the
\* LAST position it has in ids; so when no id is repeated ids[i] gets i, and
\* when ids is a permutation of all members the order_index values are
\* exactly 0..n-1 and a following ListMedia returns the members in the order
\* of ids, on both surfaces.
C3_ReorderSetsOrder ==
  \A p \in DOMAIN playlists, ids \in Engine.seqs :
    (ids # <<>> /\ Range(ids) \subseteq Members(DB, p)) =>
      LET r == Reorder(DB, p, ids)
      IN /\ r.resp.code = 200
         /\ \A m \in Range(ids) :
              OrderIndexOf(r.db, p, m) = LastPosition(ids, m) - 1
         /\ NoRepeats(ids) =>
              \A i \in 1..Len(ids) : OrderIndexOf(r.db, p, ids[i]) = i - 1
         /\ (NoRepeats(ids) /\ Range(ids) = Members(DB, p)) =>
              /\ OrderIndices(r.db, p) = 0..(Len(ids) - 1)
              /\ \A s \in Surfaces, rowseq \in OrderByOrderIndex(r.db, p) :
                   ListMedia(s, r.db, playlists[p].user_id, p, rowseq).resp.list = ids

\* C3 happens: a playlist of three members stands reordered as C=0, A=1, B=2
C3_Witness ==
  \E p \in DOMAIN playlists :
    PlaylistRows(DB, p) = {PlaylistMediaRow(p, 3, 0), PlaylistMediaRow(p, 1, 1),
                           PlaylistMediaRow(p, 2, 2)}

\* C4: Reorder with a list holding, at any position, an id that is no member
\* of the playlist answers 400 and leaves every row as it was; nothing of the
\* positions processed before the offending id is committed.
C4_ReorderFailsAtomically ==
  \A p \in DOMAIN playlists, ids \in Engine.seqs :
    (\E i \in 1..Len(ids) : ids[i] \notin Members(DB, p)) =>
      LET r == Reorder(DB, p, ids)
      IN r.resp.code = 400 /\ r.db = DB

\* C4 happens: a list whose first id is a member that the loop would move,
\* followed by an id that is no member, is answered 400
C4_Witness ==
  \E p \in DOMAIN playlists, ids \in Engine.seqs :
    /\ Len(ids) >= 2
    /\ ids[1] \in Members(DB, p)
    /\ OrderIndexOf(DB, p, ids[1]) # 0
    /\ ids[2] \notin Members(DB, p)
    /\ Reorder(DB, p, ids).resp.code = 400

\* C5: RemoveMedia(P, M) of a member deletes exactly the row of (P, M) and
\* leaves every other row, order_index included, as it was; of a non-member
\* it answers NotFound and changes nothing. ListMedia returns the members
\* ascending by order_index, so after the removal it returns what it
\* returned before without M.
C5_RemoveMediaNoCompaction ==
  \A p \in DOMAIN playlists, m \in Engine.media_ids, s \in Surfaces :
    LET u == playlists[p].user_id
        r == RemoveMedia(s, DB, u, p, m)
        Keep(x) == x # m
    IN /\ PairRows(DB, p, m) # {} =>
            /\ ~Failed(r.resp)
            /\ PairCount(DB, p, m) = 1
            /\ r.db = [DB EXCEPT !.assoc = @ (-) SetToBag(PairRows(DB, p, m))]
            /\ \A s2 \in Surfaces, after \in OrderByOrderIndex(r.db, p) :
                 \E before \in OrderByOrderIndex(DB, p) :
                   ListMedia(s2, r.db, u, p, after).resp.list =
                     SelectSeq(ListMedia(s2, DB, u, p, before).resp.list, Keep)
       /\ PairRows(DB, p, m) = {} =>
            /\ r.db = DB
            /\ s = "api" => r.resp.code = 404
            /\ s = "web" => r.resp.msg = "Media not found in this playlist."
       /\ \A s2 \in Surfaces, rowseq \in OrderByOrderIndex(DB, p) :
            LET listed == ListMedia(s2, DB, u, p, rowseq).resp.list
            IN /\ Range(listed) = Members(DB, p)
               /\ \A i, j \in 1..Len(listed) :
                    i < j => OrderIndexOf(DB, p, listed[i]) <= OrderIndexOf(DB, p, listed[j])

\* C5 happens: of the members A(0), B(1), C(2) the middle one was removed,
\* the gap at 1 stays, and ListMedia returns A, C
C5_Witness ==
  \E p \in DOMAIN playlists :
    /\ PlaylistRows(DB, p) = {PlaylistMediaRow(p, 1, 0), PlaylistMediaRow(p, 3, 2)}
    /\ 2 \in DOMAIN media
    /\ \A rowseq \in OrderByOrderIndex(DB, p) :
         PlaylistMediaList_get(DB, playlists[p].user_id, p, rowseq).resp.list = <<1, 3>>
    /\ PlaylistRemoveMedia_post(DB, playlists[p].user_id, p, 2).resp.code = 404

\* Every query, update, delete and download of one Media item by id that a
\* caller can issue, on both surfaces, with the response and tables of each
MediaRequestsById(d, u, media_id) ==
  {MediaItem_get(d, u, media_id), MediaDownload_get(d, u, media_id),
   media_page(d, u, media_id), add_to_playlist_form(d, u, media_id)}
  \cup {MediaItem_put(d, u, media_id, data) : data \in MediaPayloads}
  \cup {MediaItem_delete(d, u, media_id, os_fails) : os_fails \in BOOLEAN}
  \cup {delete_media_page(d, u, media_id, os_fails) : os_fails \in BOOLEAN}
  \cup {edit_media(d, u, media_id, x[1], x[2]) : x \in Methods \X EditForms}

\* Every request on one playlist by id that a caller can issue with a media
\* id or an id list in it, on both surfaces
PlaylistRequestsById(d, u, playlist_id) ==
  {PlaylistItem_get(d, u, playlist_id), PlaylistItem_delete(d, u, playlist_id),
   delete_playlist(d, u, playlist_id)}
  \cup {PlaylistItem_put(d, u, playlist_id, data) : data \in PlaylistPayloads}
  \cup {AddMedia(x[1], d, u, playlist_id, x[2]) : x \in Surfaces \X Full.media_ids}
  \cup {RemoveMedia(x[1], d, u, playlist_id, x[2]) : x \in Surfaces \X Full.media_ids}
  \cup {reorder_media_in_playlist(d, u, playlist_id, ids) : ids \in Full.seqs}
  \cup {ListMedia(x[1], d, u, playlist_id, x[2]) :
          x \in Surfaces \X OrderByOrderIndex(d, playlist_id)}

\* The requests that name no Media item and no playlist
RequestsByNoId(d, u) ==
  {PlaylistList_get(d, u), playlists_page(d, u)}
  \cup {MediaList_get(d, u, args) : args \in ListArgs}
  \cup {index(d, u, args) : args \in IndexArgs}
  \cup {search_media_by_title(d, u, q) : q \in Queries}
  \cup {MediaList_post(d, u, x[1], x[2], FALSE) : x \in UploadArgs \X Full.files}
  \cup {upload_form(d, u, x[1], x[2], FALSE) : x \in UploadForms \X Full.files}
  \cup {PlaylistList_post(d, u, data) : data \in PlaylistPayloads}
  \cup {create_playlist(d, u, x[1], x[2]) : x \in Methods \X PlaylistForms}

\* C6 as stated: whatever a user asks by id about a Media item of another
\* user, on either surface, is answered NotFound, carries none of the
\* item's data, and leaves the tables and the files as they were; a title
\* search by the user returns none of the item's data either.
C6_AsStated ==
  \A u1, u2 \in Users, m \in DOMAIN media :
    (u1 # u2 /\ media[m].user_id = u1) =>
      /\ \A r \in MediaRequestsById(DB, u2, m) :
           r.resp.code = 404 /\ m \notin r.resp.media /\ r.db = DB
      /\ \A q \in Queries : m \notin search_media_by_title(DB, u2, q).resp.media

C8_AsStated ==
  \A m \in DOMAIN media :
    LET u == media[m].user_id
    IN \A r \in {MediaItem_delete(DB, u, m, FALSE), delete_media_page(DB, u, m, FALSE)} :
         /\ ~Failed(r.resp)
         /\ MediaItem_get(r.db, u, m).resp.code = 404
         /\ media[m].filename \notin r.db.files

\* the answers to a request without identity: 401 on the REST surface, the
\* redirect with the "please log in" message on the browser surface
AuthenticationRequired(resp) ==
  \/ resp.code = 401
  \/ resp.code = 302 /\ resp.msg = "Unauthorized access. Please log in."

\* C9 as stated: every request without a logged-in identity is answered
\* AuthenticationRequired, carries no Media and no Playlist data, and
\* leaves the tables and the files as they were.
C9_AsStated ==
  \A r \in RequestsByNoId(DB, Anonymous)
           \cup UNION {MediaRequestsById(DB, Anonymous, m) : m \in Full.media_ids}
           \cup UNION {PlaylistRequestsById(DB, Anonymous, p) : p \in Full.playlist_ids} :
    /\ AuthenticationRequired(r.resp)
    /\ r.resp.media = {} /\ r.resp.playlists = {} /\ r.resp.list = <<>>
    /\ r.db = DB

\* C10 as stated: no two association rows of one playlist have the same
\* order_index, in any state reached by requests made one at a time.
C10_AsStated ==
  \A r1, r2 \in Rows(DB) :
    (r1 # r2 /\ r1.playlist_id = r2.playlist_id) => r1.order_index # r2.order_index

\* C11 as stated: no (playlist, media) pair has more than one association
\* row in any reachable state, AddMedia requests for one pair interleaved
\* included.
C11_AsStated ==
  \A p \in PlaylistIds, m \in Race.media_ids : PairCount(DB, p, m) <= 1

\* C12: two AddMedia requests in progress on one playlist for different
\* media that have read the same max order_index both commit, and their two
\* rows carry the same order_index.
C12_AddMediaRace ==
  \A s1, s2 \in Slots :
    LET r1 == requests[s1]
        r2 == requests[s2]
    IN ( /\ s1 # s2
         /\ r1.pc = "read" /\ r2.pc = "read"
         /\ r1.playlist_id = r2.playlist_id
         /\ r1.media_id # r2.media_id
         /\ r1.next_order = r2.next_order )
       => LET after == CommitAdd(CommitAdd(DB, r1), r2)
          IN \E x, y \in PlaylistRows(after, r1.playlist_id) :
               /\ CopiesIn(x, after.assoc) > CopiesIn(x, assoc)
               /\ CopiesIn(y, after.assoc) > CopiesIn(y, assoc)
               /\ x.media_id = r1.media_id
               /\ y.media_id = r2.media_id
               /\ x.order_index = y.order_index

\* C12 happens: both requests have committed, and two rows of one playlist
\* for different media have the same order_index
C12_Witness ==
  /\ \A slot \in Slots : requests[slot] = Idle
  /\ \E r1, r2 \in Rows(DB) :
       /\ r1.playlist_id = r2.playlist_id
       /\ r1.media_id # r2.media_id
       /\ r1.order_index = r2.order_index

\* C13 as stated: between requests, every Media row's filename names a file
\* of the file store and every file of the file store is named by exactly
\* one Media row, whatever requests came before, failed ones included.
C13_AsStated ==
  /\ \A i \in DOMAIN media : media[i].filename \in files
  /\ \A f \in files : Cardinality({i \in DOMAIN media : media[i].filename = f}) = 1

\* the fixed extension table, as the registry's contract gives it
TableType(ext) ==
  CASE ext \in {"jpg", "jpeg", "png", "gif"} -> "image"
    [] ext \in {"mp3", "wav"} -> "audio"
    [] ext \in {"mp4", "mov"} -> "video"
    [] ext \in {"pdf", "docx", "txt"} -> "ebook"
    [] OTHER -> "none"

\* the extension of the name the client sent, compared case-insensitively
OriginalExtension(file) == Lower(splitext_ext(file))

\* Names of uploaded files: every extension of the table, upper case, two
\* dots, a name outside ASCII; and names the allow-list excludes
AllowedNames ==
  {<<"a", ".", ext>> : ext \in ALLOWED_EXTENSIONS}
  \cup {<<"a", ".", "MP3">>, <<"a", ".", "exe", ".", "pdf">>, <<NonAscii, ".", "mp3">>}

ExcludedNames ==
  {<<"a", ".", "exe">>, <<"a", ".", "EXE">>, <<"a">>, <<"mp3">>, <<".", "mp3">>,
   <<"a", ".", "mp3", ".">>, <<"a", ".", "mp3", ".", "exe">>}

\* what an upload carries besides the file, on each surface
ApiUploadFields ==
  [title : {<<"a">>, <<>>, NullText}, description : {<<>>}, tags : {<<>>},
   file_type : {None, "video"}, category : {None, "other", "bogus"},
   subcategory : {"", "songs", "bogus"}]

WebUploadFields ==
  [title : {<<"a">>, <<>>, <<" ">>}, description : {<<>>}, tags : {<<>>},
   category : {"", "other", "bogus"}, subcategory : {"", "songs", "bogus"}]

\* Create on either surface, with the fields of that surface
Uploads(d, u, names) ==
  {[fields |-> x[1], file |-> x[2], supplied_category |-> Truthy(x[1].category),
    out |-> MediaList_post(d, u, x[1], x[2], FALSE)] : x \in ApiUploadFields \X names}
  \cup
  {[fields |-> x[1], file |-> x[2], supplied_category |-> x[1].category # "",
    out |-> upload_form(d, u, x[1], x[2], FALSE)] : x \in WebUploadFields \X names}

\* C14 as stated: after every successful upload the new Media's filename
\* differs from that of every other row, a Get of it by the uploader shows
\* the file_type the extension table gives the original name's extension,
\* and its category is that type when the upload supplied no category.
C14_AsStated ==
  \A u \in Users :
    \A up \in Uploads(DB, u, AllowedNames) :
      ~Failed(up.out.resp) =>
        \A n \in up.out.resp.media :
          LET after == up.out.db
              row == after.media[n]
          IN /\ \A i \in DOMAIN after.media : i # n => after.media[i].filename # row.filename
             /\ MediaItem_get(after, u, n).resp.media = {n}
             /\ row.file_type = TableType(OriginalExtension(up.file))
             /\ ~up.supplied_category => row.category = row.file_type

\* C15: an upload whose original file name has an extension outside the
\* allow-list (compared case-insensitively) or no extension fails, and
\* leaves the file store and the Media table as they were; the failure is
\* "File type not allowed" on the browser surface always and on the REST
\* surface whenever the request has its title.
C15_UnsupportedFileTypeRejected ==
  \A u \in Users :
    \A up \in Uploads(DB, u, ExcludedNames \cup {<<"a", ".", "mp3">>}) :
      OriginalExtension(up.file) \notin ALLOWED_EXTENSIONS =>
        /\ Failed(up.out.resp)
        /\ up.out.db = DB
        /\ ("file_type" \in DOMAIN up.fields /\ up.fields.title # NullText) =>
             (up.out.resp.code = 400 /\ up.out.resp.msg = "File type not allowed")
        /\ "file_type" \notin DOMAIN up.fields =>
             up.out.resp.msg = "File type not allowed"

\* C15 happens: with files stored, an upload of a.exe with a title is
\* refused as "File type not allowed" on both surfaces
C15_Witness ==
  /\ files # {}
  /\ \E u \in Users :
       \A up \in Uploads(DB, u, {<<"a", ".", "exe">>}) :
         up.fields.title = <<"a">> => up.out.resp.msg = "File type not allowed"

\* the allow-lists of the registry's contract
Categories == {"image", "audio", "video", "ebook", "other"}

Subcategories ==
  {"songs", "movies", "short_clip", "music", "study", "reference", "fiction",
   "non_fiction"}

Unset == {None, ""}

\* C16 as stated: Create with a missing or empty title, or with a supplied
\* category or subcategory outside its allow-list, fails and changes
\* nothing; and every stored Media row has a non-empty title and a category
\* and subcategory that are unset or in their allow-lists.
C16_AsStated ==
  /\ \A u \in Users :
       \A up \in Uploads(DB, u, {<<"a", ".", "mp3">>}) :
         ( \/ up.fields.title \in {<<>>, NullText}
           \/ up.fields.category \notin Categories \cup Unset
           \/ up.fields.subcategory \notin Subcategories \cup Unset )
         => (Failed(up.out.resp) /\ up.out.db = DB)
  /\ \A i \in DOMAIN media :
       /\ media[i].title \notin {<<>>, NullText}
       /\ media[i].category \in Categories \cup Unset
       /\ media[i].subcategory \in Subcategories \cup Unset

\* C17: when removing the file fails during Delete of an owned Media item,
\* the request fails (500 on the REST surface, an error message on the
\* browser surface) and the Media table, the association rows and the files
\* are as before.
C17_StorageErrorKeepsRow ==
  \A m \in DOMAIN media :
    media[m].filename \in files =>
      LET u == media[m].user_id
          api == MediaItem_delete(DB, u, m, TRUE)
          web == delete_media_page(DB, u, m, TRUE)
      IN /\ api.resp.code = 500 /\ api.db = DB
         /\ web.resp.flash = "danger" /\ web.resp.msg = "Failed to delete media file."
         /\ web.db = DB

\* C17 happens: a stored Media item with its file, free of any playlist so
\* that nothing else stands in the way of its deletion, and a Delete during
\* which the removal fails answers 500 while the same Delete succeeds when
\* the removal works
C17_Witness ==
  \E m \in DOMAIN media :
    /\ media[m].filename \in files
    /\ MediaDeleteCommits(DB, m)
    /\ MediaItem_delete(DB, media[m].user_id, m, TRUE).resp.code = 500
    /\ MediaItem_delete(DB, media[m].user_id, m, FALSE).resp.code = 204

\* DeletePlaylist on either surface
DeletePlaylist(surface, d, u, playlist_id) ==
  IF surface = "api" THEN PlaylistItem_delete(d, u, playlist_id)
  ELSE delete_playlist(d, u, playlist_id)

\* C18: DeletePlaylist by the owner removes the playlist row and every
\* association row of the playlist in the one step of the request, and
\* leaves the Media rows, the files, the other playlists and their
\* association rows as they were; so no reachable state holds an association
\* row of a playlist that is gone.
C18_DeletePlaylistCascades ==
  /\ \A row \in Rows(DB) : row.playlist_id \in DOMAIN playlists
  /\ \A p \in DOMAIN playlists, s \in Surfaces :
       LET r == DeletePlaylist(s, DB, playlists[p].user_id, p)
       IN /\ ~Failed(r.resp)
          /\ r.db.playlists = Drop(playlists, p)
          /\ PlaylistRows(r.db, p) = {}
          /\ \A row \in Rows(DB) \cup Rows(r.db) :
               row.playlist_id # p => CopiesIn(row, r.db.assoc) = CopiesIn(row, assoc)
          /\ r.db.media = media
          /\ r.db.files = files

\* C18 happens: two playlists each have members, and deleting one of them
\* leaves exactly the rows of the other
C18_Witness ==
  \E p, q \in DOMAIN playlists :
    /\ p # q
    /\ PlaylistRows(DB, p) # {}
    /\ PlaylistRows(DB, q) # {}
    /\ Rows(PlaylistItem_delete(DB, playlists[p].user_id, p).db) = PlaylistRows(DB, q)


\* the title filters of a List request: the non-empty texts over the alphabet
TitleFilters == {<<"a">>, <<"b">>, <<"a", "a">>}

\* a List request of the REST surface with nothing set but the named filters
ListQuery(title, tags, file_type) ==
  [title |-> title, tags |-> tags, file_type |-> file_type, category |-> None,
   subcategory |-> None, limit |-> 20, offset |-> 0]

\* C19: List with a title filter t returns exactly the requesting user's
\* Media whose title contains t as a contiguous piece, titles that end with
\* t included (no other filter set, the page wide enough for every row).
C19_AsStated ==
  \A u \in Users, t \in TitleFilters :
    MediaList_get(DB, u, ListQuery(t, NullText, None)).resp.media =
      {i \in DOMAIN media : media[i].user_id = u /\ Contains(media[i].title, t)}

\* the tags filters of a List request, each naming at least one tag
TagFilters == {<<"a">>, <<"a", ",", " ", "b">>}

\* the file_type filters of a List request; None leaves the filter unset
TypeFilters == {None, "audio"}

\* the Media a List request of user u is to return under a tags filter and
\* a file_type filter: the caller's own, one tag at least inside the tags
\* field, and the file_type equal
Listed(d, u, tags, file_type) ==
  {i \in DOMAIN d.media :
     /\ d.media[i].user_id = u
     /\ tags # NullText =>
          \E tag \in TagList(tags) :
            d.media[i].tags # NullText /\ Contains(d.media[i].tags, tag)
     /\ file_type # None => d.media[i].file_type = file_type}

\* C20: on both surfaces List returns only the Media of the requesting
\* user, namely those that match one tag at least of the comma-split,
\* trimmed tags filter (OR across tags) and also the equality filters (AND).
C20_AsStated ==
  \A u \in Users, file_type \in TypeFilters :
    /\ \A tags \in TagFilters \cup {NullText} :
         MediaList_get(DB, u, ListQuery(NullText, tags, file_type)).resp.media =
           Listed(DB, u, tags, file_type)
    /\ \A tags \in TagFilters \cup {<<>>} :
         index(DB, u, [tags |-> tags,
                       type |-> IF file_type = None THEN "" ELSE file_type,
                       category |-> "", subcategory |-> "", page |-> 1]).resp.media =
           Listed(DB, u, IF tags = <<>> THEN NullText ELSE tags, file_type)


\* the field sets an Update request may supply (a record with the supplied
\* fields only)
UpdateFields ==
  {[title |-> <<"b">>],
   [description |-> <<"d">>],
   [title |-> <<"b">>, tags |-> <<"t">>],
   [title |-> <<"b">>, description |-> <<"d">>, tags |-> <<"t">>,
    category |-> "video", subcategory |-> "movies"]}

\* request.form.get(field, '') for the five fields of the edit form
FormOf(supplied) ==
  [title |-> Get(supplied, "title", <<>>),
   description |-> Get(supplied, "description", <<>>),
   tags |-> Get(supplied, "tags", <<>>),
   category |-> Get(supplied, "category", ""),
   subcategory |-> Get(supplied, "subcategory", "")]

\* the Update operation on either surface
Update(surface, d, u, media_id, supplied) ==
  IF surface = "api" THEN MediaItem_put(d, u, media_id, supplied)
  ELSE edit_media(d, u, media_id, "POST", FormOf(supplied))

\* the fields of a Media row an Update request may set
Updatable == {"title", "description", "tags", "category", "subcategory"}

\* C21: an Update by the owner succeeds and sets exactly the supplied
\* fields: each supplied field holds the supplied value afterwards, each
\* field not supplied keeps its value, and filename, file_type, owner, every
\* other row and the file store are unchanged.
C21_AsStated ==
  \A i \in DOMAIN media, s \in Surfaces, supplied \in UpdateFields :
    LET r == Update(s, DB, media[i].user_id, i, supplied)
    IN /\ ~Failed(r.resp)
       /\ DOMAIN r.db.media = DOMAIN media
       /\ \A f \in Updatable :
            r.db.media[i][f] = IF f \in DOMAIN supplied THEN supplied[f] ELSE media[i][f]
       /\ r.db.media[i].filename = media[i].filename
       /\ r.db.media[i].file_type = media[i].file_type
       /\ r.db.media[i].user_id = media[i].user_id
       /\ \A j \in DOMAIN media \ {i} : r.db.media[j] = media[j]
       /\ r.db.files = files
       /\ r.db.playlists = playlists
       /\ r.db.assoc = assoc


\* the playlist types of the registry's contract
AllowedPlaylistTypes == {"audio", "video", "ebook", "all"}

\* what a CreatePlaylist or playlist update request may supply (a record
\* with the supplied fields only)
PlaylistFields ==
  {[name |-> n, playlist_type |-> t] :
     n \in {<<"p">>, <<>>}, t \in {"audio", "all", "podcast", ""}}
  \cup {[name |-> <<"p">>], [playlist_type |-> "audio"]}

\* request.form.get(field, '') for the fields of the create form
PlaylistFormOf(supplied) ==
  [name |-> Get(supplied, "name", <<>>),
   description |-> <<>>,
   playlist_type |-> Get(supplied, "playlist_type", "")]

\* the CreatePlaylist operation on either surface
CreatePlaylist(surface, d, u, supplied) ==
  IF surface = "api" THEN PlaylistList_post(d, u, supplied)
  ELSE create_playlist(d, u, "POST", PlaylistFormOf(supplied))

\* a request whose name is missing or empty, or whose playlist_type is
\* missing or outside the allowed set
InvalidPlaylist(supplied) ==
  \/ Get(supplied, "name", <<>>) = <<>>
  \/ Get(supplied, "playlist_type", "") \notin AllowedPlaylistTypes

\* C22 as stated: every stored Playlist row has a non-empty name and an
\* allowed playlist_type; CreatePlaylist, and the update of an owned
\* playlist, with a missing or empty name or a playlist_type outside the
\* allowed set fails and changes nothing.
C22_AsStated ==
  /\ \A p \in DOMAIN playlists :
       /\ playlists[p].name \notin {<<>>, NullText}
       /\ playlists[p].playlist_type \in AllowedPlaylistTypes
  /\ \A u \in Users, s \in Surfaces, supplied \in PlaylistFields :
       InvalidPlaylist(supplied) =>
         LET r == CreatePlaylist(s, DB, u, supplied)
         IN Failed(r.resp) /\ r.db = DB
  /\ \A p \in DOMAIN playlists, supplied \in PlaylistFields :
       InvalidPlaylist(supplied) =>
         LET r == PlaylistItem_put(DB, playlists[p].user_id, p, supplied)
         IN Failed(r.resp) /\ r.db = DB


\* a pair AddMedia accepts: the media item exists, is not a member of the
\* playlist, and has the playlist's type unless the playlist takes all
Addable(d, playlist_id, media_id) ==
  /\ media_id \in DOMAIN d.media
  /\ media_id \notin Members(d, playlist_id)
  /\ \/ d.playlists[playlist_id].playlist_type = "all"
     \/ d.media[media_id].file_type = d.playlists[playlist_id].playlist_type

\* the greatest order_index of the playlist's rows, 0 for an empty playlist
MaxOrderIndex(d, playlist_id) ==
  IF PlaylistRows(d, playlist_id) = {} THEN 0 ELSE Max(OrderIndices(d, playlist_id))

\* C23: AddMedia by the owner of a pair not yet in the playlist succeeds and
\* inserts exactly one association row, with order_index one above the
\* greatest order_index of the playlist (1 for an empty playlist); every
\* other row, and the other tables and the files, are unchanged.
C23_AddMediaAppends ==
  \A p \in DOMAIN playlists, m \in DOMAIN media, s \in Surfaces :
    Addable(DB, p, m) =>
      LET r == AddMedia(s, DB, playlists[p].user_id, p, m)
          row == PlaylistMediaRow(p, m, MaxOrderIndex(DB, p) + 1)
      IN /\ ~Failed(r.resp)
         /\ r.db.assoc = assoc (+) SetToBag({row})
         /\ CopiesIn(row, r.db.assoc) = 1
         /\ PlaylistRows(DB, p) = {} => row.order_index = 1
         /\ r.db.media = media /\ r.db.playlists = playlists /\ r.db.files = files

\* C23 happens: a playlist whose greatest order_index is not its number of
\* rows (a removal or a Reorder came before) takes a new member one above
\* that greatest order_index
C23_Witness ==
  \E p \in DOMAIN playlists, m \in DOMAIN media :
    /\ Addable(DB, p, m)
    /\ PlaylistRows(DB, p) # {}
    /\ MaxOrderIndex(DB, p) # Cardinality(PlaylistRows(DB, p))
    /\ PlaylistMediaRow(p, m, MaxOrderIndex(DB, p) + 1)
         \in Rows(PlaylistAddMedia_post(DB, playlists[p].user_id, p, m).db)


\* the ids of a list, as a set
Listed_ids(ids) == Range(ids)

\* C24: a Reorder that succeeds changes only the rows of the named playlist
\* whose media id is in the list: a member left out of the list keeps its
\* row, the rows of every other playlist are as before, and so are the
\* Playlist rows, the Media rows and the files.
C24_ReorderFrame ==
  \A p \in DOMAIN playlists, ids \in Cascade.seqs :
    LET r == Reorder(DB, p, ids)
    IN ~Failed(r.resp) =>
         /\ \A row \in Rows(DB) \cup Rows(r.db) :
              (row.playlist_id # p \/ row.media_id \notin Listed_ids(ids))
                => CopiesIn(row, r.db.assoc) = CopiesIn(row, assoc)
         /\ Members(r.db, p) = Members(DB, p)
         /\ r.db.playlists = playlists
         /\ r.db.media = media
         /\ r.db.files = files

\* C24 happens: a Reorder naming one of two members moves it, the other
\* member keeps its order_index, and another playlist has rows of its own
C24_Witness ==
  \E p, q \in DOMAIN playlists, ids \in Cascade.seqs :
    LET r == Reorder(DB, p, ids)
    IN /\ p # q
       /\ PlaylistRows(DB, q) # {}
       /\ ~Failed(r.resp)
       /\ Rows(r.db) # Rows(DB)
       /\ \E m \in Members(DB, p) :
            /\ m \notin Listed_ids(ids)
            /\ PairRows(r.db, p, m) = PairRows(DB, p, m)


\* the Reorder requests whose transaction is open
OpenReorders == {slot \in Slots : requests[slot].pc = "loop"}

\* C25: Reorder is one transaction for the requests beside it: while a
\* Reorder is on its way the committed rows stay as they were, until one
\* step ends the request and installs every update of the list at once (or
\* none, when the list names no member); so a ListMedia at any moment reads
\* all the order_index values from before the Reorder or all from after it.
C25_ReorderIsOneTransaction ==
  [][\A slot \in OpenReorders :
       \/ assoc' = assoc
       \/ /\ requests'[slot] = Idle
          /\ assoc' = Reorder(DB, requests[slot].playlist_id,
                              requests[slot].media_ids_order).db.assoc]_vars

\* C25 happens: a Reorder has assigned some of its ids and not yet all, its
\* session holds rows that are neither those from before nor those the
\* whole Reorder gives, and a reader lists the playlist by the rows from
\* before
C25_Witness ==
  \E slot \in OpenReorders :
    LET req == requests[slot]
        p == req.playlist_id
    IN /\ req.position > 1
       /\ req.position <= Len(req.media_ids_order)
       /\ PlaylistRows(req.session, p) # PlaylistRows(DB, p)
       /\ PlaylistRows(req.session, p)
            # PlaylistRows(Reorder(DB, p, req.media_ids_order).db, p)
       /\ ~Failed(Reorder(DB, p, req.media_ids_order).resp)
       /\ \A s \in Surfaces, rowseq \in OrderByOrderIndex(DB, p) :
            Range(ListMedia(s, DB, playlists[p].user_id, p, rowseq).resp.list)
              = Members(DB, p)


\* an upload on either surface that gets as far as the commit, which fails
FailingUploads(d, u) ==
  {MediaList_post(d, u, x[1], x[2], TRUE) : x \in UploadArgs \X Storage.files}
  \cup {upload_form(d, u, x[1], x[2], TRUE) : x \in UploadForms \X Storage.files}

\* C26 as stated: an upload whose insert or commit fails after the file was
\* written reports the failure and leaves the file store and the Media
\* table as they were before the request, on both surfaces; so every stored
\* file belongs to a Media row.
C26_AsStated ==
  /\ \A u \in Users : \A r \in FailingUploads(DB, u) :
       Failed(r.resp) /\ r.db.files = files /\ r.db.media = media
  /\ \A f \in files : \E i \in DOMAIN media : media[i].filename = f


\* C27: whatever AddMedia, RemoveMedia and Reorder requests came before, one
\* after the other, an AddMedia that inserts a new member gives it an
\* order_index above that of every other member, and the next ListMedia on
\* either surface returns it last.
C27_AppendAtEnd ==
  \A p \in DOMAIN playlists, m \in DOMAIN media, s \in Surfaces :
    Addable(DB, p, m) =>
      LET u == playlists[p].user_id
          after == AddMedia(s, DB, u, p, m).db
      IN /\ PairRows(after, p, m) # {}
         /\ \A new \in PairRows(after, p, m), row \in PlaylistRows(after, p) :
              row.media_id # m => row.order_index < new.order_index
         /\ \A s2 \in Surfaces, rowseq \in OrderByOrderIndex(after, p) :
              LET listed == ListMedia(s2, after, u, p, rowseq).resp.list
              IN Len(listed) = Cardinality(Members(DB, p)) + 1 /\ listed[Len(listed)] = m

\* C27 happens: a playlist reordered from position 0 on, with two members
\* or more, takes a new member, which is listed behind them
C27_Witness ==
  \E p \in DOMAIN playlists, m \in DOMAIN media :
    /\ Addable(DB, p, m)
    /\ Cardinality(Members(DB, p)) >= 2
    /\ 0 \in OrderIndices(DB, p)
    /\ LET u == playlists[p].user_id
           after == add_media_to_playlist(DB, u, m, p).db
       IN \A rowseq \in OrderByOrderIndex(after, p) :
            LET listed == view_playlist(after, u, p, rowseq).resp.list
            IN listed[Len(listed)] = m


\* the owner of the playlist and of the media item of an association row
SameOwner(d, row) ==
  /\ row.playlist_id \in DOMAIN d.playlists
  /\ row.media_id \in DOMAIN d.media
  /\ d.playlists[row.playlist_id].user_id = d.media[row.media_id].user_id

\* C28 as stated: every association row links a playlist and a media item
\* of one owner, so ListMedia on a user's own playlist returns no Media item
\* of another user.
C28_AsStated ==
  /\ \A row \in Rows(DB) : SameOwner(DB, row)
  /\ \A p \in DOMAIN playlists, s \in Surfaces :
       \A rowseq \in OrderByOrderIndex(DB, p) :
         \A m \in ListMedia(s, DB, playlists[p].user_id, p, rowseq).resp.media :
           media[m].user_id = playlists[p].user_id


\* C29 as stated: in every reachable state each association row of a
\* playlist whose playlist_type is not 'all' has a member whose file_type is
\* the playlist_type, updates of playlists and of media items included.
C29_AsStated ==
  \A row \in Rows(DB) :
    (row.playlist_id \in DOMAIN playlists /\ row.media_id \in DOMAIN media) =>
      \/ playlists[row.playlist_id].playlist_type = "all"
      \/ media[row.media_id].file_type = playlists[row.playlist_id].playlist_type


\* C30: in every reachable state each association row names a Playlist row
\* and a Media row that exist, whatever Delete of a member Media item and
\* DeletePlaylist requests came before; and a Delete of a member by its
\* owner, on either surface, leaves the Media row and the association rows.
C30_ReferentialIntegrity ==
  /\ \A row \in Rows(DB) :
       row.playlist_id \in DOMAIN playlists /\ row.media_id \in DOMAIN media
  /\ \A row \in Rows(DB), os_fails \in BOOLEAN :
       LET u == media[row.media_id].user_id
       IN \A r \in {MediaItem_delete(DB, u, row.media_id, os_fails),
                    delete_media_page(DB, u, row.media_id, os_fails)} :
            Failed(r.resp) /\ r.db.media = media /\ r.db.assoc = assoc

\* C30 happens: the Delete of a member Media item was tried (its file is
\* gone), and the row of the member and the Media row are both there
C30_Witness ==
  \E row \in Rows(DB) :
    /\ row.media_id \in DOMAIN media
    /\ row.playlist_id \in DOMAIN playlists
    /\ media[row.media_id].filename \notin files

=============================================================================
